---- MODULE Spec2Model ----
(***************************************************************************)
(* custom_components/proxmoxve/api.py: the ProxmoxClient session wrapper   *)
(* (reconfigure, build_client, get_api_client, close) and the command      *)
(* dispatcher post_api_command with its issue-registry side effects.       *)
(***************************************************************************)
EXTENDS Integers, Sequences, FiniteSets, TLC

VARIABLES
    config,    \* ProxmoxClient._host, _port, _user, _token_name, _realm, _password, _verify_ssl
    proxmox,   \* ProxmoxClient._proxmox: None or the cached ProxmoxAPI object
    sessions,  \* transport sessions constructed so far, by object id
    issues,    \* issue registry: the live issue ids of DOMAIN
    lastOp,    \* the call made last, with its arguments
    result,    \* how that call ended: a return value or a raised error
    calls,     \* the calls that call made on its collaborators, in order
    threads    \* build_client() calls running in executor threads: position and local

vars == <<config, proxmox, sessions, issues, lastOp, result, calls, threads>>

\* ---------------------------------------------------------------- bounds

\* ProxmoxAPI objects one ProxmoxClient constructs in a run.
MaxSessions == 3

\* Fields in which a config passed to reconfigure differs from the initial one
\* (the config with every field changed is always among the inputs).
MaxFieldChanges == 1

\* ------------------------------------------------------------- constants

POOL_MAXSIZE == 50
TIMEOUT == 30
FORBIDDEN == 403

DEFAULT_PORT == 8006
DEFAULT_REALM == "pam"
DEFAULT_VERIFY_SSL == TRUE

None == [type |-> "NoneType"]

\* ------------------------------------------------------ input value sets

Hosts == {"pve1.lan", "pve2.lan"}
Ports == {DEFAULT_PORT, 443}
Users == {"root", "admin@pve"}
TokenNames == {"", "tok"}
Realms == {DEFAULT_REALM, "pve"}
Passwords == {"pw1", "pw2"}
VerifySsl == {DEFAULT_VERIFY_SSL, FALSE}

Fields == {"host", "port", "user", "token_name", "realm", "password", "verify_ssl"}

AllConfigs ==
    [host : Hosts, port : Ports, user : Users, token_name : TokenNames,
     realm : Realms, password : Passwords, verify_ssl : VerifySsl]

\* The config the client is constructed with: the defaults of __init__.
InitialConfig ==
    [host |-> "pve1.lan", port |-> DEFAULT_PORT, user |-> "root",
     token_name |-> "", realm |-> DEFAULT_REALM, password |-> "pw1",
     verify_ssl |-> DEFAULT_VERIFY_SSL]

DiffFields(c, d) == {f \in Fields : c[f] # d[f]}

\* The configs reconfigure is called with.
Configs ==
    {c \in AllConfigs :
        \/ Cardinality(DiffFields(c, InitialConfig)) <= MaxFieldChanges
        \/ DiffFields(c, InitialConfig) = Fields}

\* What the ProxmoxAPI object built by the transport exposes: no _store
\* attribute, a _store without a session, a session without close(), or a
\* requests session.
Shapes == {"nostore", "nosession", "noclose", "closable"}

\* Errors the ProxmoxAPI constructor can raise (network, TLS, authentication).
\* The executor threads that may each run one build_client() call.
Threads == {"t1", "t2"}

ConstructErrors == {"ConnectionError", "AuthenticationError"}

\* --------------------------------------------------------- ProxmoxClient

\* "@" in self._user
HasAt(user) == user \in {"admin@pve"}

\* user_id = self._user if "@" in self._user else f"{self._user}@{self._realm}"
UserId(cfg) == IF HasAt(cfg.user) THEN cfg.user ELSE cfg.user \o "@" \o cfg.realm

\* The keyword arguments build_client passes to ProxmoxAPI.
ApiKwargs(cfg) ==
    IF cfg.token_name # ""
    THEN [host |-> cfg.host, port |-> cfg.port, user |-> UserId(cfg),
          token_name |-> cfg.token_name, token_value |-> cfg.password,
          verify_ssl |-> cfg.verify_ssl, timeout |-> TIMEOUT]
    ELSE [host |-> cfg.host, port |-> cfg.port, user |-> UserId(cfg),
          password |-> cfg.password,
          verify_ssl |-> cfg.verify_ssl, timeout |-> TIMEOUT]

\* self._proxmox._store.get("session") if hasattr(self._proxmox, "_store") else None
\* for the ProxmoxAPI object p, given the transport sessions ss.
StoreSession(p, ss) ==
    IF ss[p.id].shape = "nostore" THEN None
    ELSE IF ss[p.id].shape = "nosession" THEN None
    ELSE [session |-> p.id]

\* HasClose probing a misspelt attribute: no session is ever closable.
HasCloseNever(session, ss) == FALSE

\* hasattr(session, "close")
HasClose(session, ss) == ss[session.session].shape = "closable"

Return(v) == [kind |-> "return", value |-> v]
Raise(e) == [kind |-> "raise", error |-> e]

\* (host, port, user, token_name, realm, password, verify_ssl), the tuple
\* reconfigure builds from its arguments and from the stored fields.
ConfigTuple(cfg) ==
    <<cfg.host, cfg.port, cfg.user, cfg.token_name, cfg.realm, cfg.password,
      cfg.verify_ssl>>

\* SameConfig with `is` for `==`: two fresh tuples are never the same object.
SameConfigByIdentity(new, cfg) == FALSE

\* SameConfig with the password left out of both tuples.
SameConfigNoPassword(new, cfg) ==
    <<new.host, new.port, new.user, new.token_name, new.realm, new.verify_ssl>>
    = <<cfg.host, cfg.port, cfg.user, cfg.token_name, cfg.realm, cfg.verify_ssl>>

\* The comparison that makes reconfigure return early.
SameConfig(new, cfg) == ConfigTuple(new) = ConfigTuple(cfg)

\* IsCached with the cache check left out: every call constructs.
IsCachedNever(p) == FALSE

\* if self._proxmox is not None: return   (build_client's cache check)
IsCached(p) == p # None

\* ProxmoxClient.__init__
Init ==
    /\ config = InitialConfig
    /\ proxmox = None
    /\ sessions = <<>>
    /\ issues = {}
    /\ lastOp = [op |-> "__init__"]
    /\ result = Return(None)
    /\ calls = <<>>
    /\ threads = [t \in Threads |-> [pc |-> "idle", local |-> None, result |-> None]]

\* Close without the final self._proxmox = None.
CloseKeepsHandle(p, ss) ==
    IF p = None
    THEN [proxmox |-> p, sessions |-> ss, calls |-> <<>>]
    ELSE LET session == StoreSession(p, ss) IN
         IF session # None /\ HasClose(session, ss)
         THEN [proxmox |-> p,
               sessions |-> [ss EXCEPT ![session.session].closes = @ + 1],
               calls |-> <<[fn |-> "session.close", id |-> session.session]>>]
         ELSE [proxmox |-> p, sessions |-> ss, calls |-> <<>>]

\* What close() does to (self._proxmox, the transport sessions), and the
\* calls it makes.
Close(p, ss) ==
    IF p = None
    THEN [proxmox |-> p, sessions |-> ss, calls |-> <<>>]
    ELSE LET session == StoreSession(p, ss) IN
         IF session # None /\ HasClose(session, ss)
         THEN [proxmox |-> None,
               sessions |-> [ss EXCEPT ![session.session].closes = @ + 1],
               calls |-> <<[fn |-> "session.close", id |-> session.session]>>]
         ELSE [proxmox |-> None, sessions |-> ss, calls |-> <<>>]

\* ConfigurePool without the session.mount("http://", adapter) line.
ConfigurePoolHttpsOnly(p, ss) ==
    IF p = None THEN <<>>
    ELSE LET session == StoreSession(p, ss) IN
         IF session = None THEN <<>>
         ELSE <<[fn |-> "session.mount", id |-> session.session,
                 scheme |-> "https://", pool_maxsize |-> POOL_MAXSIZE]>>

\* What _configure_pool() mounts on the session of p: one HTTPAdapter with
\* pool_maxsize=self._pool_size, for both schemes.
ConfigurePool(p, ss) ==
    IF p = None THEN <<>>
    ELSE LET session == StoreSession(p, ss) IN
         IF session = None THEN <<>>
         ELSE <<[fn |-> "session.mount", id |-> session.session,
                 scheme |-> "http://", pool_maxsize |-> POOL_MAXSIZE],
                [fn |-> "session.mount", id |-> session.session,
                 scheme |-> "https://", pool_maxsize |-> POOL_MAXSIZE]>>

\* ProxmoxClient.close
close ==
    /\ lastOp' = [op |-> "close"]
    /\ calls' = Close(proxmox, sessions).calls
    /\ sessions' = Close(proxmox, sessions).sessions
    /\ proxmox' = Close(proxmox, sessions).proxmox
    /\ result' = Return(None)
    /\ UNCHANGED <<config, issues, threads>>

\* ProxmoxClient.reconfigure
reconfigure(new) ==
    /\ lastOp' = [op |-> "reconfigure", args |-> new]
    /\ result' = Return(None)
    /\ IF SameConfig(new, config)
       THEN /\ calls' = <<>>
            /\ UNCHANGED <<config, proxmox, sessions>>
       ELSE /\ config' = new
            /\ calls' = <<[fn |-> "close"]>> \o Close(proxmox, sessions).calls
            /\ sessions' = Close(proxmox, sessions).sessions
            /\ proxmox' = Close(proxmox, sessions).proxmox
    /\ UNCHANGED <<issues, threads>>

\* ConstructFailure with the error wrapped in a HomeAssistantError.
ConstructFailureWrapped(error) ==
    Raise([type |-> "HomeAssistantError", cause |-> error])

\* How build_client ends when the ProxmoxAPI constructor raises `error`: no
\* try surrounds the constructor calls, so the error leaves the call as it is.
ConstructFailure(error) == Raise(error)

\* ProxmoxClient.build_client
build_client ==
    /\ lastOp' = [op |-> "build_client"]
    /\ IF IsCached(proxmox)
       THEN /\ result' = Return(None)
            /\ calls' = <<>>
            /\ UNCHANGED <<proxmox, sessions>>
       ELSE /\ Len(sessions) < MaxSessions
            /\ \/ \E e \in ConstructErrors :
                    /\ calls' = <<[fn |-> "ProxmoxAPI", kwargs |-> ApiKwargs(config),
                                   raised |-> [type |-> e]]>>
                    /\ result' = ConstructFailure([type |-> e])
                    /\ UNCHANGED <<proxmox, sessions>>
               \/ \E shape \in Shapes :
                    LET api == [id |-> Len(sessions) + 1,
                                kwargs |-> ApiKwargs(config),
                                built_from |-> config]
                        made == Append(sessions,
                                       [shape |-> shape, closes |-> 0, mounts |-> <<>>])
                        mounts == ConfigurePool(api, made)
                    IN  /\ proxmox' = api
                        /\ sessions' = [made EXCEPT ![api.id].mounts = mounts]
                        /\ calls' = <<[fn |-> "ProxmoxAPI", kwargs |-> ApiKwargs(config)]>>
                                    \o mounts
                        /\ result' = Return(None)
    /\ UNCHANGED <<config, issues, threads>>

\* GetApiClient without the None check.
GetApiClientUnchecked(p) == Return(p)

\* ProxmoxClient.get_api_client, as a function of self._proxmox
GetApiClient(p) ==
    IF p = None
    THEN Raise([type |-> "HomeAssistantError",
                msg |-> "Proxmox client has not been built"])
    ELSE Return(p)

get_api_client ==
    /\ lastOp' = [op |-> "get_api_client"]
    /\ result' = GetApiClient(proxmox)
    /\ calls' = <<>>
    /\ UNCHANGED <<config, proxmox, sessions, issues, threads>>

Next ==
    \/ \E new \in Configs : reconfigure(new)
    \/ build_client
    \/ get_api_client
    \/ close

\* ------------------------------------------------------ post_api_command

\* const.ProxmoxType
Node == "node"
QEMU == "qemu"
LXC == "lxc"
Storage == "storage"
ProxmoxType == {Node, QEMU, LXC, Storage}

\* const.ProxmoxCommand
REBOOT == "reboot"
START == "start"
STOP == "stop"
SHUTDOWN == "shutdown"
RESET == "reset"
SUSPEND == "suspend"
RESUME == "resume"
HIBERNATE == "hibernate"
START_ALL == "start-all"
STOP_ALL == "stop-all"
WAKEONLAN == "wakeonlan"
ProxmoxCommand ==
    {REBOOT, START, STOP, SHUTDOWN, RESET, SUSPEND, RESUME, HIBERNATE,
     START_ALL, STOP_ALL, WAKEONLAN}

\* Command strings callers pass: the known ones and an unknown one.
Commands == ProxmoxCommand \cup {"bogus"}
Nodes == {"pve1"}
VmIds == {101}

\* self.config_entry.entry_id and self.config_entry.data[CONF_USERNAME]
EntryId == "entry1"
EntryUser == "root@pam"

\* str.capitalize() and str.upper() on the category tokens
Capitalize(s) ==
    CASE s = "node" -> "Node" [] s = "qemu" -> "Qemu"
      [] s = "lxc" -> "Lxc" [] s = "storage" -> "Storage"
Upper(s) ==
    CASE s = "node" -> "NODE" [] s = "qemu" -> "QEMU"
      [] s = "lxc" -> "LXC" [] s = "storage" -> "STORAGE"

\* Texts are sequences of tokens; "(", ")", "," and " " are tokens of their own.
RECURSIVE Join(_)
Join(text) == IF text = <<>> THEN "" ELSE Head(text) \o Join(Tail(text))

\* str.split(sep)
RECURSIVE Split(_, _)
Split(text, sep) ==
    IF \A i \in 1..Len(text) : text[i] # sep THEN <<text>>
    ELSE LET i == CHOOSE k \in 1..Len(text) :
                      text[k] = sep /\ \A j \in 1..(k - 1) : text[j] # sep
         IN  <<SubSeq(text, 1, i - 1)>> \o Split(SubSeq(text, i + 1, Len(text)), sep)

\* str.strip(chars) for one character
RECURSIVE Strip(_, _)
Strip(text, ch) ==
    IF text = <<>> THEN text
    ELSE IF Head(text) = ch THEN Strip(Tail(text), ch)
    ELSE IF text[Len(text)] = ch THEN Strip(SubSeq(text, 1, Len(text) - 1), ch)
    ELSE text

\* permissions = str(error).split("(")[1].split(",")
\* permission_check = f"['perm','{permissions[0]}',[{permissions[1].strip().strip(')')}]]"
\* An index out of range raises IndexError.
PermissionCheck(text) ==
    LET groups == Split(text, "(") IN
    IF Len(groups) < 2 THEN Raise([type |-> "IndexError"])
    ELSE LET permissions == Split(groups[2], ",") IN
         IF Len(permissions) < 2 THEN Raise([type |-> "IndexError"])
         ELSE Return("['perm','" \o Join(permissions[1]) \o "',["
                     \o Join(Strip(Strip(permissions[2], " "), ")")) \o "]]")

\* The texts of the 403 errors the transport raises.
ForbiddenTexts ==
    {<<"403 Forbidden: Permission check failed ", "(", "/vms/101", ",", " ",
       "VM.PowerMgmt", ")">>,
     <<"403 Forbidden: ", "(", "denied", ")">>}

\* What proxmox.post(path) does: returns a response or raises.
Responses == {[data |-> "UPID:pve1:0001"]}
PostOutcomes ==
    {Return(r) : r \in Responses}
    \cup {Raise([type |-> "ResourceException", status_code |-> FORBIDDEN, text |-> t]) :
            t \in ForbiddenTexts}
    \cup {Raise([type |-> "ResourceException", status_code |-> 500,
                 text |-> <<"500 Internal Server Error">>]),
          Raise([type |-> "ConnectTimeout", text |-> <<"connect timed out">>])}

\* IssueId without the per-category keys: every category shares one key.
IssueIdShared(api_category, node, vm_id) == EntryId \o "_command_forbiden"

\* issue_id
IssueId(api_category, node, vm_id) ==
    IF api_category = Node THEN EntryId \o "_" \o node \o "_command_forbiden"
    ELSE IF api_category \in {QEMU, LXC}
         THEN EntryId \o "_" \o ToString(vm_id) \o "_command_forbiden"
         ELSE EntryId \o "_command_forbiden"

\* resource
Resource(api_category, node, vm_id) ==
    IF api_category = Node THEN Capitalize(api_category) \o " " \o node
    ELSE IF api_category \in {QEMU, LXC}
         THEN Upper(api_category) \o " " \o ToString(vm_id)
         ELSE Capitalize(api_category) \o " " \o node

\* ApiPath with the hibernate rule tried before the Node rules.
ApiPathHibernateFirst(api_category, command, node, vm_id) ==
    IF command = HIBERNATE
    THEN "nodes/" \o node \o "/" \o api_category \o "/" \o ToString(vm_id)
         \o "/status/" \o SUSPEND \o "?todisk=1"
    ELSE IF api_category = Node /\ command \in {START_ALL, STOP_ALL, WAKEONLAN}
    THEN "nodes/" \o node \o "/" \o command
    ELSE IF api_category = Node
    THEN "nodes/" \o node \o "/status?command=" \o command
    ELSE "nodes/" \o node \o "/" \o api_category \o "/" \o ToString(vm_id)
         \o "/status/" \o command

\* ApiPath without the hibernate alias: the command is forwarded as it is.
ApiPathNoAlias(api_category, command, node, vm_id) ==
    IF api_category = Node /\ command \in {START_ALL, STOP_ALL, WAKEONLAN}
    THEN "nodes/" \o node \o "/" \o command
    ELSE IF api_category = Node
    THEN "nodes/" \o node \o "/status?command=" \o command
    ELSE "nodes/" \o node \o "/" \o api_category \o "/" \o ToString(vm_id)
         \o "/status/" \o command

\* The path of the POST (the try block).
ApiPath(api_category, command, node, vm_id) ==
    IF api_category = Node /\ command \in {START_ALL, STOP_ALL, WAKEONLAN}
    THEN "nodes/" \o node \o "/" \o command
    ELSE IF api_category = Node
    THEN "nodes/" \o node \o "/status?command=" \o command
    ELSE IF command = HIBERNATE
    THEN "nodes/" \o node \o "/" \o api_category \o "/" \o ToString(vm_id)
         \o "/status/" \o SUSPEND \o "?todisk=1"
    ELSE "nodes/" \o node \o "/" \o api_category \o "/" \o ToString(vm_id)
         \o "/status/" \o command

\* f"Proxmox {resource} {command} error - {error}"
ErrorMsg(resource, command, error) ==
    "Proxmox " \o resource \o " " \o command \o " error - " \o Join(error.text)

\* IsForbidden testing for 401 instead of 403.
IsForbiddenUnauthorized(error) == error.status_code = 401

\* except ResourceException: whether the handler takes the 403 branch
IsForbidden(error) == error.status_code = FORBIDDEN

\* The 403 branch of `except ResourceException`: permission_check,
\* ir.create_issue and the raise.
OnForbidden(error, issue_id, resource, command, iss) ==
    LET permission_check == PermissionCheck(error.text) IN
    IF permission_check.kind = "raise"
    THEN [result |-> permission_check, calls |-> <<>>, issues |-> iss]
    ELSE [result |-> Raise([type |-> "HomeAssistantError",
                            msg |-> ErrorMsg(resource, command, error),
                            cause |-> error]),
          calls |-> <<[fn |-> "ir.create_issue", issue_id |-> issue_id,
                       is_fixable |-> FALSE, severity |-> "error",
                       translation_key |-> "resource_command_forbiden",
                       translation_placeholders |->
                          [resource |-> resource, user |-> EntryUser,
                           permission |-> permission_check.value,
                           command |-> command]]>>,
          issues |-> iss \cup {issue_id}]

\* OnConnectTimeout without the raise: the call goes on to ir.delete_issue
\* and returns result, still None.
OnConnectTimeoutNoRaise(error, issue_id, resource, command, iss) ==
    [result |-> Return(None),
     calls |-> <<[fn |-> "ir.delete_issue", issue_id |-> issue_id,
                  existed |-> issue_id \in iss]>>,
     issues |-> iss \ {issue_id}]

\* except ConnectTimeout
OnConnectTimeout(error, issue_id, resource, command, iss) ==
    [result |-> Raise([type |-> "HomeAssistantError",
                       msg |-> ErrorMsg(resource, command, error),
                       cause |-> error]),
     calls |-> <<>>, issues |-> iss]

\* The end of the call when no except clause raised: ir.delete_issue and
\* return result. `existed` records whether the registry held the issue.
DeleteAndReturn(value, issue_id, iss) ==
    [result |-> Return(value),
     calls |-> <<[fn |-> "ir.delete_issue", issue_id |-> issue_id,
                  existed |-> issue_id \in iss]>>,
     issues |-> iss \ {issue_id}]

\* From the outcome `out` of the POST to the end of the call: the except
\* clauses, ir.delete_issue and the return. Gives the call's result, the
\* registry calls it makes and the registry it leaves. A ResourceException
\* whose status code is not 403 is caught and not raised again: result is
\* still None.
AfterPost(out, issue_id, resource, command, iss) ==
    IF out.kind = "raise" /\ out.error.type = "ResourceException"
    THEN IF IsForbidden(out.error)
         THEN OnForbidden(out.error, issue_id, resource, command, iss)
         ELSE DeleteAndReturn(None, issue_id, iss)
    ELSE IF out.kind = "raise" /\ out.error.type = "ConnectTimeout"
    THEN OnConnectTimeout(out.error, issue_id, resource, command, iss)
    ELSE DeleteAndReturn(out.value, issue_id, iss)

\* IsInvalidCommand with the membership test left out.
IsInvalidCommandNever(command) == FALSE

\* command not in ProxmoxCommand
IsInvalidCommand(command) == command \notin ProxmoxCommand

\* Precheck with the command validated before the client is fetched.
PrecheckCommandFirst(p, command) ==
    IF IsInvalidCommand(command)
    THEN Raise([type |-> "ValueError", msg |-> "Invalid Command"])
    ELSE GetApiClient(p)

\* proxmox = proxmox_client.get_api_client(), then the command check: the
\* error that ends the call before the POST, or the client.
Precheck(p, command) ==
    LET got == GetApiClient(p) IN
    IF got.kind = "raise" THEN got
    ELSE IF IsInvalidCommand(command)
    THEN Raise([type |-> "ValueError", msg |-> "Invalid Command"])
    ELSE got

post_api_command(api_category, command, node, vm_id) ==
    /\ lastOp' = [op |-> "post_api_command", api_category |-> api_category,
                  command |-> command, node |-> node, vm_id |-> vm_id]
    /\ LET got == Precheck(proxmox, command) IN
       IF got.kind = "raise"
       THEN /\ result' = got
            /\ calls' = <<>>
            /\ UNCHANGED issues
       ELSE \E out \in PostOutcomes :
              LET path == ApiPath(api_category, command, node, vm_id)
                  after == AfterPost(out, IssueId(api_category, node, vm_id),
                                     Resource(api_category, node, vm_id), command,
                                     issues)
              IN  /\ result' = after.result
                  /\ calls' = <<[fn |-> "post", client |-> got.value.id,
                                 path |-> path, outcome |-> out]>> \o after.calls
                  /\ issues' = after.issues
    /\ UNCHANGED <<config, proxmox, sessions, threads>>

NextDispatch ==
    \/ build_client
    \/ \E api_category \in ProxmoxType, command \in Commands, node \in Nodes,
          vm_id \in VmIds :
          post_api_command(api_category, command, node, vm_id)

\* ------------------------------------------- build_client, line by line

\* if self._proxmox is not None: return
BuildCheck(t) ==
    /\ threads[t].pc = "idle"
    /\ threads' = [threads EXCEPT ![t] =
                     IF IsCached(proxmox)
                     THEN [pc |-> "done", local |-> None, result |-> Return(None)]
                     ELSE [pc |-> "construct", local |-> None, result |-> None]]
    /\ lastOp' = [op |-> "build_client", thread |-> t, step |-> "check"]
    /\ UNCHANGED <<config, proxmox, sessions, issues, result, calls>>

\* ProxmoxAPI(...): the constructor call, whose value is not yet stored.
BuildConstruct(t) ==
    /\ threads[t].pc = "construct"
    /\ lastOp' = [op |-> "build_client", thread |-> t, step |-> "construct"]
    /\ \/ \E e \in ConstructErrors :
            /\ threads' = [threads EXCEPT ![t] =
                             [pc |-> "done", local |-> None,
                              result |-> ConstructFailure([type |-> e])]]
            /\ calls' = Append(calls, [fn |-> "ProxmoxAPI", kwargs |-> ApiKwargs(config),
                                       raised |-> [type |-> e]])
            /\ UNCHANGED sessions
       \/ \E shape \in Shapes :
            LET api == [id |-> Len(sessions) + 1,
                        kwargs |-> ApiKwargs(config),
                        built_from |-> config]
            IN  /\ threads' = [threads EXCEPT ![t] =
                                 [pc |-> "assign", local |-> api, result |-> None]]
                /\ sessions' = Append(sessions,
                                      [shape |-> shape, closes |-> 0, mounts |-> <<>>])
                /\ calls' = Append(calls, [fn |-> "ProxmoxAPI",
                                           kwargs |-> ApiKwargs(config)])
    /\ UNCHANGED <<config, proxmox, issues, result>>

\* self._proxmox = <the constructed object>
BuildAssign(t) ==
    /\ threads[t].pc = "assign"
    /\ proxmox' = threads[t].local
    /\ threads' = [threads EXCEPT ![t].pc = "pool"]
    /\ lastOp' = [op |-> "build_client", thread |-> t, step |-> "assign"]
    /\ UNCHANGED <<config, sessions, issues, result, calls>>

\* self._configure_pool(), which reads self._proxmox again, then return
BuildConfigurePool(t) ==
    /\ threads[t].pc = "pool"
    /\ LET mounts == ConfigurePool(proxmox, sessions) IN
         /\ sessions' = IF mounts = <<>> THEN sessions
                        ELSE [sessions EXCEPT ![proxmox.id].mounts = @ \o mounts]
         /\ calls' = calls \o mounts
    /\ threads' = [threads EXCEPT ![t].pc = "done", ![t].result = Return(None)]
    /\ lastOp' = [op |-> "build_client", thread |-> t, step |-> "pool"]
    /\ UNCHANGED <<config, proxmox, issues, result>>

NextConcurrent ==
    \E t \in Threads :
        \/ BuildCheck(t)
        \/ BuildConstruct(t)
        \/ BuildAssign(t)
        \/ BuildConfigurePool(t)

SpecConcurrent == Init /\ [][NextConcurrent]_vars

SpecDispatch == Init /\ [][NextDispatch]_vars

Spec == Init /\ [][Next]_vars

\* ---------------------------------------------------------------- claims

Built == proxmox # None

\* session.close() calls and close() calls among the calls of the last call
CountFn(log, fn) == Cardinality({i \in 1..Len(log) : log[i].fn = fn})

\* C1: on a built client, reconfigure() with a config equal to the stored one
\* in all 7 fields is a no-op: nothing is closed, the cached session is the
\* same object and the stored config is unchanged.
C1_ReconfigureSameIsNoOp ==
    [][(/\ lastOp'.op = "reconfigure"
        /\ Built
        /\ DiffFields(lastOp'.args, config) = {})
       => (/\ proxmox' = proxmox
           /\ config' = config
           /\ sessions' = sessions
           /\ calls' = <<>>)]_vars

C1_Witness ==
    /\ lastOp.op = "reconfigure"
    /\ Built
    /\ lastOp.args = config
    /\ sessions[proxmox.id].closes = 0
    /\ calls = <<>>

\* C2: on a built client, reconfigure() with a config that differs from the
\* stored one in at least one field stores the new config, calls close()
\* exactly once (releasing a closable session exactly once) and leaves no
\* session cached; a build_client() that follows constructs a new session.
C2_ReconfigureChangedCloses ==
    /\ [][(/\ lastOp'.op = "reconfigure"
           /\ Built
           /\ DiffFields(lastOp'.args, config) # {})
          => (/\ config' = lastOp'.args
              /\ proxmox' = None
              /\ CountFn(calls', "close") = 1
              /\ IF sessions[proxmox.id].shape = "closable"
                 THEN /\ CountFn(calls', "session.close") = 1
                      /\ sessions' = [sessions EXCEPT ![proxmox.id].closes = @ + 1]
                      /\ sessions'[proxmox.id].closes = 1
                 ELSE /\ CountFn(calls', "session.close") = 0
                      /\ sessions' = sessions)]_vars
    /\ [][(/\ lastOp.op = "reconfigure"
           /\ calls # <<>>
           /\ lastOp'.op = "build_client")
          => (/\ CountFn(calls', "ProxmoxAPI") = 1
              /\ result'.kind = "return"
                 => (/\ Len(sessions') = Len(sessions) + 1
                     /\ proxmox' # None
                     /\ proxmox'.id = Len(sessions')
                     /\ proxmox'.built_from = config
                     /\ sessions'[proxmox'.id].closes = 0))]_vars

C2_Witness ==
    /\ lastOp.op = "reconfigure"
    /\ lastOp.args = config
    /\ config # InitialConfig
    /\ ~Built
    /\ calls = <<[fn |-> "close"], [fn |-> "session.close", id |-> 1]>>
    /\ sessions[1].closes = 1

\* C3: build_client() is idempotent: a call on a client with a cached session
\* constructs nothing and leaves the cached session the same object, so two
\* calls in sequence construct at most one session.
C3_BuildIdempotent ==
    [][lastOp'.op = "build_client"
       => (/\ Built => (/\ proxmox' = proxmox
                        /\ sessions' = sessions
                        /\ CountFn(calls', "ProxmoxAPI") = 0)
           /\ Len(sessions') <= Len(sessions) + 1
           /\ result'.kind = "raise" => (sessions' = sessions /\ proxmox' = proxmox)
           /\ (lastOp.op = "build_client" /\ result.kind = "return")
              => (Built /\ sessions' = sessions /\ proxmox' = proxmox))]_vars

C3_Witness ==
    /\ lastOp.op = "build_client"
    /\ Built
    /\ calls = <<>>
    /\ Len(sessions) = 1

\* C4: get_api_client() raises the not-built error exactly when no session is
\* cached (before any successful build_client(), after close() and after a
\* config-changing reconfigure()), and otherwise returns the cached client.
C4_GetApiClient ==
    /\ lastOp.op = "get_api_client"
       => IF Built
          THEN result = Return(proxmox)
          ELSE /\ result.kind = "raise"
               /\ result.error.type = "HomeAssistantError"
               /\ result.error.msg = "Proxmox client has not been built"
    /\ Len(sessions) = 0 => ~Built
    /\ lastOp.op = "close" => ~Built
    /\ (lastOp.op = "reconfigure" /\ calls # <<>>) => ~Built
    /\ (lastOp.op = "build_client" /\ result.kind = "return") => Built

C4_Witness ==
    /\ lastOp.op = "get_api_client"
    /\ result.kind = "raise"
    /\ Len(sessions) > 0

\* C5: whenever a session is cached it was constructed from exactly the
\* config currently stored.
C5_SessionMatchesConfig ==
    Built => (/\ proxmox.built_from = config
              /\ proxmox.kwargs = ApiKwargs(config))

C5_Witness ==
    /\ Built
    /\ Len(sessions) = 2
    /\ config # InitialConfig
    /\ proxmox.built_from = config

\* C6: when every transport session is closable, every session the client
\* constructed before the latest one has been closed, and only the cached one
\* can be unclosed: at most one constructed session is unclosed at any time.
C6_AtMostOneUnclosed ==
    (\A i \in 1..Len(sessions) : sessions[i].shape = "closable")
    => (/\ \A i \in 1..(Len(sessions) - 1) : sessions[i].closes >= 1
        /\ \A i \in 1..Len(sessions) :
             sessions[i].closes = 0 => (Built /\ proxmox.id = i)
        /\ Cardinality({i \in 1..Len(sessions) : sessions[i].closes = 0}) <= 1)

C6_Witness ==
    /\ Len(sessions) = 2
    /\ \A i \in 1..2 : sessions[i].shape = "closable"
    /\ sessions[1].closes = 1
    /\ sessions[2].closes = 0
    /\ Built

IsPost == lastOp.op = "post_api_command"
InvalidCommandError == Raise([type |-> "ValueError", msg |-> "Invalid Command"])

\* C7 as stated: dispatching a command outside the known set raises the
\* invalid-command error, posts nothing and touches no issue.
C7_InvalidCommandAlways ==
    (IsPost /\ lastOp.command \notin ProxmoxCommand)
    => (result = InvalidCommandError /\ calls = <<>>)

\* C7, amended: with a built client, dispatching a command outside the known
\* set raises the invalid-command error, posts nothing and creates or deletes
\* no issue.
C7_InvalidCommandOnBuiltClient ==
    [][(/\ lastOp'.op = "post_api_command"
        /\ lastOp'.command \notin ProxmoxCommand
        /\ Built)
       => (/\ result' = InvalidCommandError
           /\ calls' = <<>>
           /\ issues' = issues)]_vars

C7_Witness ==
    /\ IsPost
    /\ lastOp.command = "bogus"
    /\ Built
    /\ result = InvalidCommandError
    /\ issues # {}

\* The one POST of the last call goes to `path`.
PostedTo(path) ==
    /\ CountFn(calls, "post") = 1
    /\ calls[1].fn = "post"
    /\ calls[1].path = path

\* C8: for category Node and every valid command the POST path is
\* nodes/{node}/{command} for start-all, stop-all and wake-on-LAN and
\* nodes/{node}/status?command={command} for every other command, hibernate
\* included.
C8_NodePath ==
    (IsPost /\ Built /\ lastOp.api_category = Node /\ lastOp.command \in ProxmoxCommand)
    => IF lastOp.command \in {START_ALL, STOP_ALL, WAKEONLAN}
       THEN PostedTo("nodes/" \o lastOp.node \o "/" \o lastOp.command)
       ELSE PostedTo("nodes/" \o lastOp.node \o "/status?command=" \o lastOp.command)

C8_Witness ==
    /\ IsPost
    /\ lastOp.api_category = Node
    /\ lastOp.command = HIBERNATE
    /\ PostedTo("nodes/pve1/status?command=hibernate")

\* C9: for category QEMU or LXC and every valid command the POST path is
\* nodes/{node}/{category}/{vmId}/status/suspend?todisk=1 for hibernate and
\* nodes/{node}/{category}/{vmId}/status/{command} for every other command.
C9_GuestPath ==
    (IsPost /\ Built /\ lastOp.api_category \in {QEMU, LXC}
     /\ lastOp.command \in ProxmoxCommand)
    => LET base == "nodes/" \o lastOp.node \o "/" \o lastOp.api_category \o "/"
                   \o ToString(lastOp.vm_id) \o "/status/"
       IN  IF lastOp.command = HIBERNATE
           THEN PostedTo(base \o "suspend?todisk=1")
           ELSE PostedTo(base \o lastOp.command)

C9_Witness ==
    /\ IsPost
    /\ lastOp.api_category = QEMU
    /\ lastOp.command = HIBERNATE
    /\ PostedTo("nodes/pve1/qemu/101/status/suspend?todisk=1")

\* The text holds a parenthesized pair: "(", then a "," and then a ")", with
\* no parenthesis before the "(" or inside the pair.
HasPermPair(text) ==
    \E i, j, k \in 1..Len(text) :
        /\ i < j /\ j < k
        /\ text[i] = "(" /\ text[j] = "," /\ text[k] = ")"
        /\ \A n \in 1..(k - 1) : n # i => text[n] \notin {"(", ")"}

\* The POST of the last call raised a 403 whose text holds the pair.
PostForbidden ==
    /\ IsPost
    /\ CountFn(calls, "post") = 1
    /\ calls[1].outcome.kind = "raise"
    /\ calls[1].outcome.error.type = "ResourceException"
    /\ calls[1].outcome.error.status_code = 403
    /\ HasPermPair(calls[1].outcome.error.text)

\* The issue key of the last call's resource.
ResourceKey ==
    IF lastOp.api_category = Node
    THEN "entry1_" \o lastOp.node \o "_command_forbiden"
    ELSE "entry1_" \o ToString(lastOp.vm_id) \o "_command_forbiden"

\* C10: when the POST raises a 403 whose text holds the parenthesized pair,
\* the call creates the issue at the key of its resource (entry id and node
\* for Node, entry id and vmId for QEMU/LXC), raises an error wrapping the
\* original one, and the issue is live when the call ends.
C10_ForbiddenCreatesIssue ==
    (PostForbidden /\ lastOp.api_category \in {Node, QEMU, LXC})
    => (/\ Len(calls) = 2
        /\ calls[2].fn = "ir.create_issue"
        /\ calls[2].issue_id = ResourceKey
        /\ ResourceKey \in issues
        /\ result.kind = "raise"
        /\ result.error.type = "HomeAssistantError"
        /\ result.error.cause = calls[1].outcome.error)

C10_Witness ==
    /\ PostForbidden
    /\ lastOp.api_category = QEMU
    /\ lastOp.vm_id = 101
    /\ "entry1_101_command_forbiden" \in issues
    /\ result.kind = "raise"

\* The issue key of the dispatch `op`: entry id and node for Node, entry id
\* and vm_id for QEMU and LXC, the entry id alone for the other categories.
KeyOf(op) ==
    IF op.api_category = Node
    THEN "entry1_" \o op.node \o "_command_forbiden"
    ELSE IF op.api_category \in {QEMU, LXC}
    THEN "entry1_" \o ToString(op.vm_id) \o "_command_forbiden"
    ELSE "entry1_command_forbiden"

\* The call `op` with the calls `log` was a dispatch that made its POST.
Posted(op, log) ==
    /\ op.op = "post_api_command"
    /\ log # <<>>
    /\ log[1].fn = "post"

\* C11: a dispatch whose POST succeeds deletes the issue at its key, live or
\* not, and nothing else: afterwards no issue is live at that key, so an
\* issue a 403 created earlier for the same key is gone.
C11_SuccessDeletesIssue ==
    [][(Posted(lastOp', calls') /\ calls'[1].outcome.kind = "return")
       => (/\ Len(calls') = 2
           /\ calls'[2].fn = "ir.delete_issue"
           /\ calls'[2].issue_id = KeyOf(lastOp')
           /\ calls'[2].existed = (KeyOf(lastOp') \in issues)
           /\ issues' = issues \ {KeyOf(lastOp')}
           /\ result' = Return(calls'[1].outcome.value))]_vars

C11_Witness ==
    /\ Posted(lastOp, calls)
    /\ calls[1].outcome.kind = "return"
    /\ lastOp.api_category = QEMU
    /\ calls[2].existed
    /\ "entry1_101_command_forbiden" \notin issues
    /\ result.kind = "return"

\* The POST of the dispatch with the calls `log` raised a connect timeout.
TimedOut(log) ==
    /\ log[1].outcome.kind = "raise"
    /\ log[1].outcome.error.type = "ConnectTimeout"

\* C12: a dispatch whose POST raises a connect timeout raises an error
\* wrapping it and makes no registry call: the live issues are the same
\* before and after, whether or not one is live at the dispatch's key.
C12_TimeoutLeavesIssues ==
    [][(Posted(lastOp', calls') /\ TimedOut(calls'))
       => (/\ issues' = issues
           /\ Len(calls') = 1
           /\ result'.kind = "raise"
           /\ result'.error.type = "HomeAssistantError"
           /\ result'.error.cause = calls'[1].outcome.error)]_vars

C12_Witness ==
    /\ Posted(lastOp, calls)
    /\ TimedOut(calls)
    /\ KeyOf(lastOp) \in issues
    /\ Len(calls) = 1
    /\ result.kind = "raise"

\* C13: whenever the POST of a dispatch raises (a resource error of any
\* status code, or a connect timeout) the dispatch ends by raising; it
\* returns only when the POST returned.
C13_FailedPostRaises ==
    (Posted(lastOp, calls) /\ calls[1].outcome.kind = "raise")
    => result.kind = "raise"

\* The POST of the dispatch with the calls `log` raised a 403.
RaisedForbidden(log) ==
    /\ log[1].outcome.kind = "raise"
    /\ log[1].outcome.error.type = "ResourceException"
    /\ log[1].outcome.error.status_code = 403

\* C14: a dispatch whose POST raised an error other than a 403 leaves the
\* live issues unchanged: an issue is deleted only by a dispatch whose POST
\* returned.
C14_OnlySuccessDeletes ==
    [][(/\ Posted(lastOp', calls')
        /\ calls'[1].outcome.kind = "raise"
        /\ ~RaisedForbidden(calls'))
       => issues' = issues]_vars

\* C15: under every outcome, a post_api_command call creates or deletes an
\* issue only at its own key (entry id and node for Node, entry id and vm_id
\* for QEMU and LXC): the issues at all other keys are unchanged, and so are
\* the ProxmoxClient's stored config and cached session.
C15_DispatchFrame ==
    [][lastOp'.op = "post_api_command"
       => (/\ issues' \ {KeyOf(lastOp')} = issues \ {KeyOf(lastOp')}
           /\ \A i \in 1..Len(calls') :
                calls'[i].fn \in {"ir.create_issue", "ir.delete_issue"}
                => calls'[i].issue_id = KeyOf(lastOp')
           /\ config' = config
           /\ proxmox' = proxmox
           /\ sessions' = sessions)]_vars

C15_Witness ==
    /\ Posted(lastOp, calls)
    /\ RaisedForbidden(calls)
    /\ lastOp.api_category = LXC
    /\ issues = {"entry1_101_command_forbiden", "entry1_pve1_command_forbiden"}
    /\ Built

\* C16: when the ProxmoxAPI constructor raises during build_client(), the
\* error reaches the caller as it was raised and the ProxmoxClient is
\* unchanged: no session is cached, the config is the same and
\* get_api_client() still raises the not-built error; a build_client() that
\* follows calls the constructor again.
C16_ConstructFailureLeavesState ==
    /\ [][(lastOp'.op = "build_client" /\ result'.kind = "raise")
          => (/\ Len(calls') = 1
              /\ calls'[1].fn = "ProxmoxAPI"
              /\ result'.error = calls'[1].raised
              /\ proxmox = None
              /\ proxmox' = None
              /\ config' = config
              /\ sessions' = sessions)]_vars
    /\ [][(lastOp.op = "build_client" /\ result.kind = "raise")
          => (/\ lastOp'.op = "get_api_client"
                 => (/\ result'.kind = "raise"
                     /\ result'.error.msg = "Proxmox client has not been built")
              /\ lastOp'.op = "build_client"
                 => CountFn(calls', "ProxmoxAPI") = 1)]_vars

C16_Witness ==
    /\ lastOp.op = "build_client"
    /\ result = Raise([type |-> "AuthenticationError"])
    /\ calls[1].fn = "ProxmoxAPI"
    /\ ~Built
    /\ Len(sessions) = 1

\* C17: close() with no cached session makes no call and changes nothing;
\* close() with a cached session calls session.close() once when the
\* transport session is closable and not at all otherwise, and always clears
\* the cached session, so a second close() does nothing and a build_client()
\* that follows constructs a fresh session.
C17_CloseIdempotent ==
    /\ [][lastOp'.op = "close"
          => (/\ proxmox' = None
              /\ config' = config
              /\ ~Built => (calls' = <<>> /\ sessions' = sessions)
              /\ Built =>
                   IF sessions[proxmox.id].shape = "closable"
                   THEN /\ calls' = <<[fn |-> "session.close", id |-> proxmox.id]>>
                        /\ sessions' = [sessions EXCEPT ![proxmox.id].closes = @ + 1]
                   ELSE /\ calls' = <<>>
                        /\ sessions' = sessions)]_vars
    /\ [][(lastOp.op = "close" /\ lastOp'.op = "build_client")
          => (/\ CountFn(calls', "ProxmoxAPI") = 1
              /\ result'.kind = "return"
                 => (/\ proxmox' # None
                     /\ proxmox'.id = Len(sessions) + 1
                     /\ sessions'[proxmox'.id].closes = 0))]_vars

C17_Witness ==
    /\ lastOp.op = "close"
    /\ calls = <<>>
    /\ ~Built
    /\ Len(sessions) = 1
    /\ sessions[1].shape = "closable"
    /\ sessions[1].closes = 1

\* C18: every constructed session whose transport exposes a session object
\* has exactly one mount of a pool-size-50 adapter for "http://" and one for
\* "https://", made by the build_client() call that constructed it and never
\* repeated; a transport without a session object gets no mount, and
\* build_client() still returns normally and caches the client.
Mounted(i, scheme) ==
    {k \in 1..Len(sessions[i].mounts) :
        /\ sessions[i].mounts[k].scheme = scheme
        /\ sessions[i].mounts[k].id = i
        /\ sessions[i].mounts[k].pool_maxsize = 50}

ExposesSession(i) == sessions[i].shape \in {"noclose", "closable"}

C18_PoolMounted ==
    /\ [](\A i \in 1..Len(sessions) :
            IF ExposesSession(i)
            THEN /\ Len(sessions[i].mounts) = 2
                 /\ Cardinality(Mounted(i, "http://")) = 1
                 /\ Cardinality(Mounted(i, "https://")) = 1
            ELSE sessions[i].mounts = <<>>)
    /\ [][/\ \A i \in 1..Len(sessions) : sessions'[i].mounts = sessions[i].mounts
          /\ CountFn(calls', "session.mount") > 0
             => (/\ lastOp'.op = "build_client"
                 /\ Len(sessions') = Len(sessions) + 1
                 /\ sessions'[Len(sessions')].mounts = Tail(calls'))
          /\ (lastOp'.op = "build_client" /\ Len(sessions') > Len(sessions))
             => (/\ result' = Return(None)
                 /\ proxmox' # None
                 /\ proxmox'.id = Len(sessions')
                 /\ sessions'[proxmox'.id].shape \in {"nostore", "nosession"}
                    => calls' = <<calls'[1]>>)]_vars

C18_Witness ==
    /\ Len(sessions) = 2
    /\ Built
    /\ proxmox.id = 2
    /\ sessions[1].shape = "nosession"
    /\ sessions[2].shape = "closable"
    /\ Cardinality(Mounted(2, "http://")) = 1
    /\ Cardinality(Mounted(2, "https://")) = 1
    /\ sessions[1].mounts = <<>>

\* C19: post_api_command on a client with no built session raises the
\* not-built error for every command, known or not, makes no POST and no
\* issue-registry call, and leaves the issues as they were.
NotBuiltError ==
    Raise([type |-> "HomeAssistantError",
           msg |-> "Proxmox client has not been built"])

C19_UnbuiltDispatchFails ==
    [][(lastOp'.op = "post_api_command" /\ ~Built)
       => (/\ result' = NotBuiltError
           /\ calls' = <<>>
           /\ issues' = issues
           /\ proxmox' = None)]_vars

C19_Witness ==
    /\ IsPost
    /\ ~Built
    /\ lastOp.command \notin ProxmoxCommand
    /\ result = NotBuiltError
    /\ calls = <<>>

\* C20 as stated: two build_client() calls that start with no cached session
\* and run concurrently construct at most one session between them, so no
\* session that was stored in self._proxmox is replaced by another and left
\* unclosed.
Assigned(i) ==
    \E t \in Threads :
        /\ threads[t].pc \in {"pool", "done"}
        /\ threads[t].local # None
        /\ threads[t].local.id = i

Overwritten(i) ==
    /\ Assigned(i)
    /\ proxmox.id # i
    /\ sessions[i].closes = 0

C20_NoDuplicateSession ==
    (\A t \in Threads : threads[t].pc = "done")
    => (/\ Len(sessions) <= 1
        /\ \A i \in 1..Len(sessions) : ~Overwritten(i))

====
